---------------------------- MODULE Spec2Model ----------------------------
(***************************************************************************)
(* RESP serialization of redis-cpp (include/redis-cpp/resp/serialization.h)*)
(*                                                                         *)
(* A byte is a one-element token ("a", "NUL", "CR", "LF", "+", "0", ...),  *)
(* a text or byte span is a sequence of tokens.  The output stream is the  *)
(* std::ostream the put functions write to: its buffer, its good() state   *)
(* and its exceptions() mask.  Every `stream << x` and every               *)
(* `stream.write(p, n)` of the source is one insertion.                    *)
(* The stream is in its default formatting state (decimal, width 0,        *)
(* classic locale); the put functions never change it.                     *)
(***************************************************************************)
EXTENDS Integers, Sequences, FiniteSets, TLC

\* Longest text / byte span that is enumerated.
MaxLen == 2
\* Width of the widest integral type; stands for the 64 of std::int64_t.
IntBits == 5
\* Largest arity of a fixed (tuple) array that is enumerated.
MaxArity == 2
\* Longest forward_list given to a list array.
MaxList == 3
\* Longest sequence of back-to-back put calls on one stream.
MaxCalls == 3

---------------------------------------------------------------------------
(* detail::marker (redis-cpp/resp/detail/marker.h), bytes of the wire form *)

marker_simple_string == "+"
marker_error_message == "-"
marker_integer == ":"
marker_bulk_string == "$"
marker_array == "*"
marker_cr == "CR"
marker_lf == "LF"

---------------------------------------------------------------------------
(* Payload bytes and std::string_view                                      *)

Byte == {"a", "NUL", "CR", "LF"}

Texts == UNION {[1..n -> Byte] : n \in 0..MaxLen}

\* A std::string_view: data() is null (ptr = FALSE, size 0) or points to chars.
string_view(chars) == [ptr |-> TRUE, chars |-> chars]

\* std::string_view{} : data() == nullptr, size() == 0.
string_view_default == [ptr |-> FALSE, chars |-> <<>>]

Views == {string_view_default} \cup {string_view(t) : t \in Texts}

---------------------------------------------------------------------------
(* operator<< for integral types with the stream's default flags           *)
(* (std::dec, no showpos, classic locale): the shortest decimal, with a    *)
(* leading '-' for a negative value.                                       *)

DigitChar(d) == <<"0", "1", "2", "3", "4", "5", "6", "7", "8", "9">>[d + 1]

RECURSIVE DecNat(_)
DecNat(n) ==
    IF n < 10 THEN <<DigitChar(n)>>
    ELSE Append(DecNat(n \div 10), DigitChar(n % 10))

Dec(i) == IF i < 0 THEN <<"-">> \o DecNat(-i) ELSE DecNat(i)

\* static_cast_int64 with a fault: no conversion, the value is printed as an
\* unsigned number.
static_cast_int64_unsigned(v) == v

\* static_cast<std::int64_t>(value_): the value modulo 2^IntBits, read as
\* a two's complement number of IntBits bits.
static_cast_int64(v) ==
    LET m == v % (2 ^ IntBits)
    IN  IF m >= 2 ^ (IntBits - 1) THEN m - 2 ^ IntBits ELSE m

---------------------------------------------------------------------------
(* The value classes.  A value is a record holding the class (kind) and    *)
(* the private members of the class.                                       *)

simple_string(value) == [kind |-> "simple_string", value_ |-> value]

error_message(value) == [kind |-> "error_message", value_ |-> value]

\* The integral types integer<T> accepts (static_assert is_integral_v):
\* signed or unsigned, narrow (2 bits) or of the full width.
IntTypes == [signed : BOOLEAN, bits : {2, IntBits}]

IntRange(T) ==
    IF T.signed THEN -(2 ^ (T.bits - 1)) .. (2 ^ (T.bits - 1)) - 1
    ELSE 0 .. (2 ^ T.bits) - 1

integer(T, value) == [kind |-> "integer", T |-> T, value_ |-> value]

\* bulk_string() leaves value_ a default string_view.
bulk_string_default == [kind |-> "bulk_string", value_ |-> string_view_default]

bulk_string(value) == [kind |-> "bulk_string", value_ |-> value]

\* data is [ptr, mem]: a null pointer, or a pointer to the bytes mem.
binary_data(data, length) ==
    [kind |-> "binary_data", data_ |-> data, length_ |-> length]

null == [kind |-> "null"]

\* A template argument of array<T...>: the class of the item, and whether
\* the argument is spelled as a reference (array<null &>) or by value.
TypeArg(v, ref) == [type |-> v.kind, ref |-> ref]

\* array<null> is the explicit specialization; it has no members.
IsNullSpecialization(T) == T = <<[type |-> "null", ref |-> FALSE]>>

\* array(T && ... values): values_ holds std::make_tuple(values...), or,
\* for array<null>, the specialization's array(null const &) holds nothing.
array(T, values) ==
    IF IsNullSpecialization(T)
    THEN [kind |-> "array", T |-> T]
    ELSE [kind |-> "array", T |-> T,
          values_ |-> [index |-> "tuple_type", items |-> values]]

\* array(list_type const &list): values_ holds a copy of the list.
array_list(list) ==
    [kind |-> "array", T |-> <<>>,
     values_ |-> [index |-> "list_type", items |-> list]]

---------------------------------------------------------------------------
(* The put member functions.  Each yields the insertions it performs on    *)
(* the stream, in order; an insertion is the bytes one `<<` or one         *)
(* stream.write hands to the stream.                                       *)

RECURSIVE Flatten(_)
Flatten(ss) == IF ss = <<>> THEN <<>> ELSE Head(ss) \o Flatten(Tail(ss))

\* simple_string_put with a fault: the terminator is a bare line feed.
simple_string_put_lf_only(self) ==
    << <<marker_simple_string>>, self.value_.chars, <<marker_lf>> >>

simple_string_put(self) ==
    << <<marker_simple_string>>, self.value_.chars,
       <<marker_cr>>, <<marker_lf>> >>

error_message_put(self) ==
    << <<marker_error_message>>, self.value_.chars,
       <<marker_cr>>, <<marker_lf>> >>

integer_put(self) ==
    << <<marker_integer>>, Dec(static_cast_int64(self.value_)),
       <<marker_cr>>, <<marker_lf>> >>

\* bulk_string_put with a fault: the test is on value_.empty(), so an empty
\* view is written as the null bulk string.
bulk_string_put_empty_as_null(self) ==
    IF self.value_.ptr /\ self.value_.chars # <<>>
    THEN << <<marker_bulk_string>>, Dec(Len(self.value_.chars)),
            <<marker_cr>>, <<marker_lf>>,
            self.value_.chars,
            <<marker_cr>>, <<marker_lf>> >>
    ELSE << <<marker_bulk_string>>, Dec(-1), <<marker_cr>>, <<marker_lf>> >>

bulk_string_put(self) ==
    IF self.value_.ptr
    THEN << <<marker_bulk_string>>, Dec(Len(self.value_.chars)),
            <<marker_cr>>, <<marker_lf>>,
            self.value_.chars,
            <<marker_cr>>, <<marker_lf>> >>
    ELSE << <<marker_bulk_string>>, Dec(-1), <<marker_cr>>, <<marker_lf>> >>

\* binary_data_put with a fault: a null pointer is written as a payload of
\* length 0.
binary_data_put_null_as_empty(self) ==
    << <<marker_bulk_string>>,
       Dec(IF self.data_.ptr THEN self.length_ ELSE 0),
       <<marker_cr>>, <<marker_lf>>,
       IF self.data_.ptr THEN SubSeq(self.data_.mem, 1, self.length_) ELSE <<>>,
       <<marker_cr>>, <<marker_lf>> >>

binary_data_put(self) ==
    IF self.data_.ptr
    THEN << <<marker_bulk_string>>, Dec(self.length_),
            <<marker_cr>>, <<marker_lf>>,
            SubSeq(self.data_.mem, 1, self.length_),
            <<marker_cr>>, <<marker_lf>> >>
    ELSE << <<marker_bulk_string>>, Dec(-1), <<marker_cr>>, <<marker_lf>> >>

null_put(self) == bulk_string_put(bulk_string_default)

\* array_null_put with a fault: the null array is written as an empty array.
array_null_put_as_empty(self) ==
    << <<marker_array>>, Dec(0), <<marker_cr>>, <<marker_lf>> >>

array_null_put(self) ==
    << <<marker_array>>, Dec(-1), <<marker_cr>>, <<marker_lf>> >>

RECURSIVE put(_)

\* array_put_tuple with a fault: the fold visits the elements right to left.
array_put_tuple_reversed(T, values) ==
    << <<marker_array>>, Dec(Len(T)), <<marker_cr>>, <<marker_lf>> >>
    \o Flatten([i \in 1..Len(values) |-> put(values[Len(values) + 1 - i])])

\* The tuple_type visitor: the header, then print(args) for each element
\* of the tuple, left to right.
array_put_tuple(T, values) ==
    << <<marker_array>>, Dec(Len(T)), <<marker_cr>>, <<marker_lf>> >>
    \o Flatten([i \in 1..Len(values) |-> put(values[i])])

\* array_put_list with a fault: the count starts at 1.
array_put_list_off_by_one(values) ==
    LET count == 1 + Len(values)
    IN  << <<marker_array>>, Dec(count), <<marker_cr>>, <<marker_lf>> >>
        \o Flatten([i \in 1..Len(values) |-> put(simple_string(values[i]))])

\* The list_type visitor: count the list, the header, then a
\* simple_string for each element.
array_put_list(values) ==
    LET count == Len(values)
    IN  << <<marker_array>>, Dec(count), <<marker_cr>>, <<marker_lf>> >>
        \o Flatten([i \in 1..Len(values) |-> put(simple_string(values[i]))])

array_put(self) ==
    IF IsNullSpecialization(self.T) THEN array_null_put(self)
    ELSE IF self.values_.index = "tuple_type"
         THEN array_put_tuple(self.T, self.values_.items)
         ELSE array_put_list(self.values_.items)

\* serialization::put(stream, value): value.put(stream).
put(value) ==
    CASE value.kind = "simple_string" -> simple_string_put(value)
      [] value.kind = "error_message" -> error_message_put(value)
      [] value.kind = "integer" -> integer_put(value)
      [] value.kind = "bulk_string" -> bulk_string_put(value)
      [] value.kind = "binary_data" -> binary_data_put(value)
      [] value.kind = "null" -> null_put(value)
      [] value.kind = "array" -> array_put(value)

---------------------------------------------------------------------------
(* The values that are written.                                            *)

\* binary_data over a non-null pointer is given a length within the bytes
\* the pointer refers to (a longer length reads outside the caller's
\* buffer); with a null pointer the length is arbitrary.
Scalars ==
    {simple_string(w) : w \in Views}
    \cup {error_message(w) : w \in Views}
    \cup {integer(T, x) : <<T, x>> \in
            UNION {{<<T, x>> : x \in IntRange(T)} : T \in IntTypes}}
    \cup {bulk_string(w) : w \in Views} \cup {bulk_string_default}
    \cup {binary_data([ptr |-> FALSE, mem |-> <<>>], n) : n \in 0..MaxLen}
    \cup UNION {{binary_data([ptr |-> TRUE, mem |-> t], n) : n \in 0..Len(t)}
                    : t \in Texts}
    \cup {null}

\* array<null>{null{}}: the null array.
NullArray == array(<<TypeArg(null, FALSE)>>, <<null>>)

\* Items of the fixed arrays: at least one of every class, among them
\* nested arrays of the three forms.
ItemPool ==
    { simple_string(string_view(<<"a">>)),
      error_message(string_view(<<"a", "CR">>)),
      integer([signed |-> FALSE, bits |-> IntBits], (2 ^ IntBits) - 1),
      bulk_string(string_view(<<"NUL">>)),
      bulk_string_default,
      binary_data([ptr |-> TRUE, mem |-> <<"CR", "LF">>], 2),
      null,
      NullArray,
      array_list(<<string_view(<<"a">>)>>),
      array(<<TypeArg(null, TRUE)>>, <<null>>) }

\* Arguments spelled as references are enumerated for one item only: the
\* spelling selects between the primary template and array<null>, which
\* exists for one argument.
TupleArrays ==
    UNION {{array([i \in 1..n |-> TypeArg(vs[i], ref)], vs)
                : vs \in [1..n -> ItemPool],
                  ref \in IF n = 1 THEN BOOLEAN ELSE {FALSE}}
            : n \in 0..MaxArity}

ListTexts == {string_view(<<>>), string_view(<<"a">>), string_view(<<"a", "LF">>)}

ListArrays ==
    UNION {{array_list(l) : l \in [1..k -> ListTexts]} : k \in 0..MaxList}

Values == Scalars \cup TupleArrays \cup ListArrays

---------------------------------------------------------------------------
(* The std::ostream.  buf: the bytes accepted so far; good: good();        *)
(* mask: exceptions() includes badbit and failbit; sentry: whether this    *)
(* library's ostream::sentry calls setstate(failbit) on a stream that is   *)
(* not good (the standard allows both).                                    *)

NoFault == [at |-> 0, cut |-> 0]

\* The faults the stream's buffer can report while the insertions ops are
\* made: none, or at insertion `at` after accepting `cut` of its bytes.
Faults(ops) ==
    {NoFault} \cup
    UNION {{[at |-> i, cut |-> j] : j \in 0..(Len(ops[i]) - 1)}
            : i \in 1..Len(ops)}

\* One insertion (`stream << x`, `stream.write(p, n)`).  cut < 0: the
\* buffer accepts all bytes.  On a stream that is not good the sentry
\* refuses the insertion.  A state change throws when the mask is set.
Insert(s, bytes, cut) ==
    IF ~s.good
    THEN [s |-> s, threw |-> s.mask /\ s.sentry, reported |-> FALSE]
    ELSE IF cut < 0
    THEN [s |-> [s EXCEPT !.buf = @ \o bytes],
          threw |-> FALSE, reported |-> FALSE]
    ELSE [s |-> [s EXCEPT !.buf = @ \o SubSeq(bytes, 1, cut), !.good = FALSE],
          threw |-> s.mask, reported |-> TRUE]

\* The insertions ops[i..] made one after another; an exception leaves
\* the function at once, otherwise the function runs to its end.
RECURSIVE RunPut(_, _, _, _, _)
RunPut(s, ops, i, fault, reported) ==
    IF i > Len(ops)
    THEN [s |-> s, outcome |-> "returned", reported |-> reported]
    ELSE LET r == Insert(s, ops[i], IF fault.at = i THEN fault.cut ELSE -1)
         IN  IF r.threw
             THEN [s |-> r.s, outcome |-> "threw",
                   reported |-> reported \/ r.reported]
             ELSE RunPut(r.s, ops, i + 1, fault, reported \/ r.reported)

\* serialization_put with a fault: put catches the stream's exception and
\* clears the stream's state before it returns.
serialization_put_suppressing(s, value, fault) ==
    LET r == RunPut(s, put(value), 1, fault, FALSE)
    IN  [r EXCEPT !.s.good = TRUE, !.outcome = "returned"]

\* serialization_put with a fault: put seeks to the start of the stream
\* before it writes.
serialization_put_rewinding(s, value, fault) ==
    RunPut([s EXCEPT !.buf = <<>>], put(value), 1, fault, FALSE)

\* A call serialization::put(stream, value) by the caller.
serialization_put(s, value, fault) == RunPut(s, put(value), 1, fault, FALSE)

---------------------------------------------------------------------------
VARIABLES
    stream,     \* the std::ostream written to
    start,      \* the bytes the stream held before the first call
    hist,       \* the values of the calls that ended, in the order they ended
    last,       \* the last call: value, stream before it, fault, outcome
    writers,    \* two threads' calls in progress: value and next insertion
    owner,      \* the thread holding the callers' mutex, or 0
    serialized  \* whether the callers take a mutex around each call

vars == <<stream, start, hist, last, writers, owner, serialized>>

NoCall == [outcome |-> "none"]

InitStream(b, m, y) == [buf |-> b, good |-> TRUE, mask |-> m, sentry |-> y]

\* The faults that can occur in a call on stream s: none reaches a stream
\* that is not good, its sentry refuses every insertion.
FaultsOn(s, ops) == IF s.good THEN Faults(ops) ELSE {NoFault}

\* One call of put by a single caller, from entry to return or throw.
Put(value, fault) ==
    LET r == serialization_put(stream, value, fault)
    IN  /\ stream' = r.s
        /\ hist' = Append(hist, value)
        /\ last' = [value |-> value, before |-> stream, fault |-> fault,
                    reported |-> r.reported, outcome |-> r.outcome]
        /\ UNCHANGED <<start, writers, owner, serialized>>

\* A single call on a fresh stream, for every value.
Init ==
    /\ start \in {<<>>, <<"a">>}
    /\ \E m \in BOOLEAN : stream = InitStream(start, m, TRUE)
    /\ hist = <<>>
    /\ last = NoCall
    /\ writers = <<>>
    /\ owner = 0
    /\ serialized = TRUE

Next ==
    /\ hist = <<>>
    /\ \E value \in Values : \E fault \in FaultsOn(stream, put(value)) :
           Put(value, fault)

Spec == Init /\ [][Next]_vars

---------------------------------------------------------------------------
(* Pipelining: calls made one after another on the same stream.            *)

PipeValues ==
    { simple_string(string_view(<<"a">>)),
      integer([signed |-> TRUE, bits |-> IntBits], -1),
      bulk_string_default,
      binary_data([ptr |-> TRUE, mem |-> <<"LF">>], 1),
      array(<<TypeArg(null, FALSE), TypeArg(null, FALSE)>>, <<null, null>>),
      array_list(<<string_view(<<"a">>)>>) }

InitPipe ==
    /\ start \in {<<>>, <<"a">>}
    /\ \E m \in BOOLEAN, y \in BOOLEAN : stream = InitStream(start, m, y)
    /\ hist = <<>>
    /\ last = NoCall
    /\ writers = <<>>
    /\ owner = 0
    /\ serialized = TRUE

NextPipe ==
    /\ Len(hist) < MaxCalls
    /\ \E value \in PipeValues : \E fault \in FaultsOn(stream, put(value)) :
           Put(value, fault)

SpecPipe == InitPipe /\ [][NextPipe]_vars

---------------------------------------------------------------------------
(* Two threads calling put on the same stream.  Without a mutex the calls  *)
(* race on the stream (undefined behaviour); the outcomes modelled are     *)
(* the interleavings of the two calls' insertions.                         *)

Writer == {1, 2}

ConcValues ==
    { binary_data([ptr |-> TRUE, mem |-> <<"a">>], 1),
      array_list(<<string_view(<<"a">>)>>) }

\* writer_ops with a fault: the last insertion stays in a buffer of the
\* encoder when the call returns.
writer_ops_buffered(value) == SubSeq(put(value), 1, Len(put(value)) - 1)

\* The insertions a thread's call makes.
writer_ops(value) == put(value)

InitConc ==
    /\ start = <<>>
    /\ stream = InitStream(start, FALSE, TRUE)
    /\ hist = <<>>
    /\ last = NoCall
    /\ writers \in [Writer -> [value : ConcValues, pc : {0}]]
    /\ owner = 0
    /\ serialized \in BOOLEAN

\* Thread w enters put; a serializing caller takes the mutex first.
Enter(w) ==
    /\ writers[w].pc = 0
    /\ serialized => owner = 0
    /\ owner' = IF serialized THEN w ELSE owner
    /\ writers' = [writers EXCEPT ![w].pc = 1]
    /\ UNCHANGED <<stream, start, hist, last, serialized>>

\* Thread w makes its next insertion.
Step(w) ==
    /\ writers[w].pc \in 1..Len(writer_ops(writers[w].value))
    /\ stream' = Insert(stream, writer_ops(writers[w].value)[writers[w].pc], -1).s
    /\ writers' = [writers EXCEPT ![w].pc = @ + 1]
    /\ UNCHANGED <<start, hist, last, owner, serialized>>

\* Thread w returns from put; a serializing caller releases the mutex.
Leave(w) ==
    /\ writers[w].pc = Len(writer_ops(writers[w].value)) + 1
    /\ writers' = [writers EXCEPT ![w].pc = -1]
    /\ hist' = Append(hist, writers[w].value)
    /\ owner' = IF serialized THEN 0 ELSE owner
    /\ UNCHANGED <<stream, start, last, serialized>>

NextConc == \E w \in Writer : Enter(w) \/ Step(w) \/ Leave(w)

SpecConc == InitConc /\ [][NextConc]_vars


---------------------------------------------------------------------------
(* What the last call appended.                                            *)

\* The last call returned and the stream is still good: no fault occurred.
Clean == last.outcome = "returned" /\ stream.good

Appended == SubSeq(stream.buf, Len(last.before.buf) + 1, Len(stream.buf))

AppendedTo == SubSeq(stream.buf, 1, Len(last.before.buf)) = last.before.buf

CRLF == <<"CR", "LF">>

\* The bytes a value written alone gives.
Encoding(value) == Flatten(put(value))

RECURSIVE EncodingsOf(_)
EncodingsOf(values) ==
    IF values = <<>> THEN <<>>
    ELSE Encoding(Head(values)) \o EncodingsOf(Tail(values))

IsArray(v) == v.kind = "array"

\* An array made by array(T && ... values), array<null> among them.
IsFixedArray(v) ==
    IsArray(v) /\ (IsNullSpecialization(v.T) \/ v.values_.index = "tuple_type")

\* The items array(T && ... values) was given.
FixedItems(v) == IF IsNullSpecialization(v.T) THEN <<null>> ELSE v.values_.items

IsListArray(v) ==
    IsArray(v) /\ ~IsNullSpecialization(v.T) /\ v.values_.index = "list_type"

FixedArrayForm(v) ==
    <<"*">> \o Dec(Len(FixedItems(v))) \o CRLF \o EncodingsOf(FixedItems(v))

\* C1 as stated: every fixed array of n >= 0 items of any classes, a
\* single NullValue item included, appends *<n>\r\n and then its n items'
\* encodings in argument order.
C1_FixedArrayAsStated ==
    (Clean /\ IsFixedArray(last.value))
        => (AppendedTo /\ Appended = FixedArrayForm(last.value))

\* C1 amended: the same for every fixed array except array<null>, the
\* array of one NullValue passed by value, which appends *-1\r\n and no
\* item.
C1_FixedArray ==
    (Clean /\ IsFixedArray(last.value))
        => /\ AppendedTo
           /\ IF IsNullSpecialization(last.value.T)
              THEN Appended = <<"*", "-", "1">> \o CRLF
              ELSE Appended = FixedArrayForm(last.value)

\* A fixed array of one NullValue, spelled array<null &>, was written.
C1_Witness ==
    /\ Clean /\ IsFixedArray(last.value)
    /\ last.value.T = <<[type |-> "null", ref |-> TRUE]>>
    /\ Appended = <<"*", "1", "CR", "LF", "$", "-", "1", "CR", "LF">>

RECURSIVE SimpleStringsOf(_)
SimpleStringsOf(list) ==
    IF list = <<>> THEN <<>>
    ELSE <<"+">> \o Head(list).chars \o CRLF \o SimpleStringsOf(Tail(list))

\* C2: a list array of k >= 0 texts appends *<k>\r\n and then exactly k
\* simple strings +<item>\r\n in traversal order; for k = 0 exactly
\* *0\r\n.
C2_ListArray ==
    (Clean /\ IsListArray(last.value))
        => LET list == last.value.values_.items
           IN  /\ AppendedTo
               /\ Appended = <<"*">> \o Dec(Len(list)) \o CRLF
                                \o SimpleStringsOf(list)
               /\ (list = <<>>) => (Appended = <<"*", "0">> \o CRLF)

\* A list array of three texts was written.
C2_Witness ==
    /\ Clean /\ IsListArray(last.value)
    /\ Len(last.value.values_.items) = 3
    /\ last.value.values_.items[1] # last.value.values_.items[3]

\* C3: the null array appends exactly *-1\r\n and no item bytes; no other
\* array does: the empty list array and the fixed array of no items append
\* *0\r\n.
C3_NullArray ==
    (Clean /\ IsArray(last.value))
        => /\ AppendedTo
           /\ IsNullSpecialization(last.value.T)
                 => (Appended = <<"*", "-", "1", "CR", "LF">>)
           /\ ~IsNullSpecialization(last.value.T)
                 => /\ Appended # <<"*", "-", "1", "CR", "LF">>
                    /\ (last.value.values_.items = <<>>)
                          => (Appended = <<"*", "0", "CR", "LF">>)

\* The null array was written.
C3_Witness == Clean /\ last.value = NullArray /\ Len(Appended) = 5

\* A value that expresses an absent payload.
IsAbsent(v) ==
    \/ v.kind = "null"
    \/ v.kind = "bulk_string" /\ ~v.value_.ptr
    \/ v.kind = "binary_data" /\ ~v.data_.ptr

\* C4: every absent payload (bulk_string(), a bulk_string over a view
\* without data, binary_data with a null pointer and any length, null)
\* appends exactly $-1\r\n, never $0\r\n\r\n.
C4_AbsentPayload ==
    (Clean /\ IsAbsent(last.value))
        => /\ AppendedTo
           /\ Appended = <<"$", "-", "1", "CR", "LF">>
           /\ Appended # <<"$", "0", "CR", "LF", "CR", "LF">>

\* binary_data with a null pointer and a length > 0 was written.
C4_Witness ==
    /\ Clean /\ last.value.kind = "binary_data"
    /\ ~last.value.data_.ptr /\ last.value.length_ > 0

IsPresent(v) ==
    \/ v.kind = "bulk_string" /\ v.value_.ptr
    \/ v.kind = "binary_data" /\ v.data_.ptr

\* The byte span a present payload denotes.
Span(v) ==
    IF v.kind = "bulk_string" THEN v.value_.chars
    ELSE SubSeq(v.data_.mem, 1, v.length_)

\* C5: a present payload, as bulk_string or as binary_data, appends
\* $<len>\r\n, the len bytes unmodified, \r\n, len being the byte count;
\* both classes give the same bytes, and the empty span gives $0\r\n\r\n.
C5_PresentPayload ==
    (Clean /\ IsPresent(last.value))
        => LET span == Span(last.value)
           IN  /\ AppendedTo
               /\ Appended = <<"$">> \o Dec(Len(span)) \o CRLF \o span \o CRLF
               /\ Appended = Encoding(bulk_string(string_view(span)))
               /\ Appended = Encoding(binary_data([ptr |-> TRUE, mem |-> span],
                                                  Len(span)))
               /\ (span = <<>>) => (Appended = <<"$", "0">> \o CRLF \o CRLF)
               /\ Appended # <<"$", "-", "1">> \o CRLF

\* binary_data over a span holding NUL and CR was written.
C5_Witness ==
    /\ Clean /\ last.value.kind = "binary_data" /\ last.value.data_.ptr
    /\ Span(last.value) = <<"NUL", "CR">>

\* Reading a decimal numeral back.
DigitOf(c) ==
    CHOOSE d \in 0..9 : <<"0", "1", "2", "3", "4", "5", "6", "7", "8", "9">>[d + 1] = c

IsDigit(c) == c \in {"0", "1", "2", "3", "4", "5", "6", "7", "8", "9"}

RECURSIVE NatOf(_)
NatOf(ds) ==
    IF ds = <<>> THEN 0
    ELSE 10 * NatOf(SubSeq(ds, 1, Len(ds) - 1)) + DigitOf(ds[Len(ds)])

\* A canonical signed decimal: digits, no leading zero, '-' only before
\* a non-zero number, no '+'.
IsCanonicalDecimal(ds) ==
    /\ ds # <<>>
    /\ LET digits == IF ds[1] = "-" THEN Tail(ds) ELSE ds
       IN  /\ digits # <<>>
           /\ \A i \in 1..Len(digits) : IsDigit(digits[i])
           /\ Len(digits) > 1 => digits[1] # "0"
           /\ ds[1] = "-" => digits # <<"0">>

IntOf(ds) == IF ds[1] = "-" THEN -NatOf(Tail(ds)) ELSE NatOf(ds)

\* C6: an integer of any integral type appends :<v>\r\n, <v> the
\* canonical signed decimal of the value read as a signed number of the
\* full width: a value in the signed range unchanged, an unsigned value
\* u >= 2^(IntBits-1) as u - 2^IntBits.
C6_Integer ==
    (Clean /\ last.value.kind = "integer")
        => LET v == last.value.value_
               expected == IF v >= 2 ^ (IntBits - 1) THEN v - 2 ^ IntBits ELSE v
               numeral == SubSeq(Appended, 2, Len(Appended) - 2)
           IN  /\ AppendedTo
               /\ Len(Appended) >= 4
               /\ Appended[1] = ":"
               /\ SubSeq(Appended, Len(Appended) - 1, Len(Appended)) = CRLF
               /\ IsCanonicalDecimal(numeral)
               /\ IntOf(numeral) = expected

\* An unsigned value above the signed range was written, as a negative
\* number of two digits.
C6_Witness ==
    /\ Clean /\ last.value.kind = "integer"
    /\ ~last.value.T.signed
    /\ last.value.value_ >= 2 ^ (IntBits - 1)
    /\ Len(Appended) = 6 /\ Appended[2] = "-"

HasCRLF(t) == \E i \in 1..(Len(t) - 1) : t[i] = "CR" /\ t[i + 1] = "LF"

\* Decoding a simple string per the wire form: strip the + marker, read
\* up to the first \r\n.
DecodeSimpleString(bytes) ==
    IF bytes = <<>> \/ bytes[1] # "+" THEN [ok |-> FALSE, text |-> <<>>]
    ELSE LET rest == Tail(bytes)
             ends == {i \in 1..(Len(rest) - 1) :
                         rest[i] = "CR" /\ rest[i + 1] = "LF"}
         IN  IF ends = {} THEN [ok |-> FALSE, text |-> <<>>]
             ELSE [ok |-> TRUE,
                   text |-> SubSeq(rest, 1,
                              (CHOOSE i \in ends : \A j \in ends : i <= j) - 1)]

\* C10: a simple string over a text without \r\n appends +<text>\r\n, the
\* text verbatim, and decoding the appended bytes gives the text back,
\* the empty text included.
C10_SimpleStringRoundTrip ==
    (Clean /\ last.value.kind = "simple_string"
           /\ ~HasCRLF(last.value.value_.chars))
        => /\ AppendedTo
           /\ Appended = <<"+">> \o last.value.value_.chars \o CRLF
           /\ DecodeSimpleString(Appended)
                = [ok |-> TRUE, text |-> last.value.value_.chars]

\* A simple string over a text that ends in a lone \r was written.
C10_Witness ==
    /\ Clean /\ last.value.kind = "simple_string"
    /\ last.value.value_.chars = <<"a", "CR">>

\* The bytes of Encoding(value) the stream accepted before the fault.
AcceptedUpTo(value, fault) ==
    SubSeq(Encoding(value), 1,
           Len(Flatten(SubSeq(put(value), 1, fault.at - 1))) + fault.cut)

\* C7 as stated: once the stream reported a failure during a call, the
\* call does not return normally to its caller.
C7_FailureAsStated ==
    (last.outcome # "none" /\ last.reported) => last.outcome # "returned"

\* C7 amended: once the stream reported a failure during a call, the call
\* ends with the stream's failure state set; it ends by the stream's
\* exception when the stream's exception mask is set and returns normally
\* otherwise; no byte follows the bytes accepted before the failure.
C7_Failure ==
    (last.outcome # "none" /\ last.reported)
        => /\ ~stream.good
           /\ (last.outcome = "threw") <=> stream.mask
           /\ stream.buf = last.before.buf
                             \o AcceptedUpTo(last.value, last.fault)

\* A failure inside the first item of a fixed array of two items, on a
\* stream that does not throw.
C7_Witness ==
    /\ last.outcome = "returned" /\ last.reported
    /\ IsFixedArray(last.value) /\ Len(last.value.T) = 2
    /\ last.fault.at = 6
    /\ Len(Appended) < Len(Encoding(last.value))

\* C8: after any sequence of calls made one after another, a stream that
\* is still good holds its initial bytes and then the encodings of the
\* values in call order; the last call appended the encoding its value has
\* alone, whatever was written before; and, good or not, a call leaves the
\* bytes already on the stream as they were.
C8_Pipelining ==
    /\ SubSeq(stream.buf, 1, Len(start)) = start
    /\ last.outcome # "none" => AppendedTo
    /\ stream.good => stream.buf = start \o EncodingsOf(hist)
    /\ (last.outcome # "none" /\ stream.good)
          => Appended = Encoding(last.value)

\* The same value was written twice in a row after another value, on a
\* stream that was not empty.
C8_Witness ==
    /\ stream.good /\ start # <<>>
    /\ Len(hist) = 3
    /\ hist[1] # hist[2] /\ hist[2] = hist[3]
    /\ IsArray(hist[3])

AllDone == \A w \in DOMAIN writers : writers[w].pc = -1

InEitherOrder ==
    stream.buf \in
        { Encoding(writers[1].value) \o Encoding(writers[2].value),
          Encoding(writers[2].value) \o Encoding(writers[1].value) }

\* C9: when the callers serialize the two calls, the stream ends with the
\* two complete encodings one after the other, in the order the calls
\* were made; the encoder itself takes no lock: without the callers'
\* mutex a thread's insertions go between the other's (C9_Witness).
C9_SingleWriter ==
    (writers # <<>> /\ serialized /\ AllDone)
        => /\ InEitherOrder
           /\ stream.buf = EncodingsOf(hist)

\* Two unsynchronized calls ended and the stream holds neither
\* concatenation of the two encodings.
C9_Witness ==
    /\ writers # <<>> /\ ~serialized /\ AllDone
    /\ ~InEitherOrder

===========================================================================
